---- MODULE Spec2Model ----
(***************************************************************************)
(* Model of lab_5_scrapper/scrapper.py: one run of main().  The            *)
(* configuration file and the news site are drawn in Init; main() builds   *)
(* the Config (validation gate), creates the Crawler and runs              *)
(* Crawler.find_articles.                                                  *)
(*                                                                         *)
(* Python values are records [t, n, s]: t is the dynamic type, n the       *)
(* number of an int/bool/float (True = 1, False = 0), s the characters of  *)
(* a str or the items of a list/dict.  A str is a sequence of characters.  *)
(***************************************************************************)
EXTENDS Integers, Sequences, FiniteSets, TLC

VARIABLES cfgFile,        \* content of the configuration file (json.load result)
          site,           \* the site: per seed position, the fetch outcome and the page
          pc,             \* position of main()
          raised,         \* the exception that left main(), or "none"
          config,         \* the private fields of the Config object
          crawlerCreated, \* Crawler.__init__ has run
          urls,           \* Crawler.urls
          seedIdx,        \* position of the for loop of find_articles (1-based)
          page,           \* links (href values) of the parsed listing page, in page order
          new_url,        \* local new_url of find_articles
          requests,       \* seed positions make_request has been called for
          handed,         \* the URLs main() has given to HTMLParser, in order
          written,        \* the URLs of the articles given to to_raw and to_meta
          dataset,        \* lab_6_pipeline: the directory path_to_raw_txt_data names
          cm_pc,          \* position of CorpusManager.__init__
          cm_raised,      \* the exception that left CorpusManager.__init__, or "none"
          storage         \* keys of CorpusManager._storage

vars == <<cfgFile, site, pc, raised, config, crawlerCreated, urls, seedIdx,
          page, new_url, requests, handed, written, dataset, cm_pc, cm_raised,
          storage>>

\* the state of the second half of main()
tailVars == <<handed, written>>

\* the state of the CorpusManager
corpusVars == <<dataset, cm_pc, cm_raised, storage>>

-----------------------------------------------------------------------------
(* Bounds of the model *)

\* most links on one listing page
MaxLinks == 2

\* Crawler.urls is not extended beyond this length
MaxUrls == 4

\* largest article id of a file of the dataset
MaxId == 3

-----------------------------------------------------------------------------
(* Python values *)

PyStr(chars) == [t |-> "str", n |-> 0, s |-> chars]
PyInt(k) == [t |-> "int", n |-> k, s |-> <<>>]
PyBool(b) == [t |-> "bool", n |-> IF b THEN 1 ELSE 0, s |-> <<>>]
PyFloat(k) == [t |-> "float", n |-> k, s |-> <<>>]
PyList(items) == [t |-> "list", n |-> 0, s |-> items]
PyDict(pairs) == [t |-> "dict", n |-> 0, s |-> pairs]
PyNone == [t |-> "none", n |-> 0, s |-> <<>>]
Unset == [t |-> "unset", n |-> 0, s |-> <<>>]

\* isinstance(v, int): bool is a subclass of int
IsInt(v) == v.t \in {"int", "bool"}
IsBool(v) == v.t = "bool"
IsStr(v) == v.t = "str"
IsList(v) == v.t = "list"
IsDict(v) == v.t = "dict"

-----------------------------------------------------------------------------
(* Strings of the program and of the inputs *)

Https == <<"h", "t", "t", "p", "s", ":", "/", "/">>
Http == <<"h", "t", "t", "p", ":", "/", "/">>
Ftp == <<"f", "t", "p", ":", "/", "/">>
Host == <<"b", "a", "i", "k", "a", "l", "2", "4", ".", "r", "u">>
OtherHost == <<"x", ".", "r", "u">>

\* Crawler.url_pattern
url_pattern == Https \o Host

\* href values a teaser link of a listing page can carry
HrefRoot == <<"/">>
HrefA == <<"/", "a">>
HrefB == <<"/", "b">>
Hrefs == {HrefRoot, HrefA, HrefB}

Seed1 == url_pattern \o HrefRoot
Seed2 == url_pattern \o <<"/", "?", "p", "=", "2">>

HasPrefix(p, chars) == Len(chars) >= Len(p) /\ SubSeq(chars, 1, Len(p)) = p

\* re.match('https?://(www.)?', url) is truthy: the optional group never
\* decides the match
ReMatchSeed(chars) == HasPrefix(Https, chars) \/ HasPrefix(Http, chars)


-----------------------------------------------------------------------------
(* Config._validate_config_content *)

\* all(re.match('https?://(www.)?', url) for url in seed_urls), from item i on:
\* all() stops at the first falsy match; re.match raises TypeError on a
\* value that is not a str
RECURSIVE AllReMatch(_, _)
AllReMatch(items, i) ==
    IF i > Len(items) THEN "true"
    ELSE IF ~IsStr(items[i]) THEN "TypeError"
    ELSE IF ~ReMatchSeed(items[i].s) THEN "false"
    ELSE AllReMatch(items, i + 1)

CheckSeedUrls(v) ==
    IF ~IsList(v) THEN "IncorrectSeedURLError"
    ELSE LET r == AllReMatch(v.s, 1)
         IN  IF r = "TypeError" THEN "TypeError"
             ELSE IF r = "false" THEN "IncorrectSeedURLError"
             ELSE "ok"

\* the check without its "or isinstance(..., bool)"
CheckTotalArticlesNoBool(v) ==
    IF ~(IsInt(v) /\ v.n > 0)
    THEN "IncorrectNumberOfArticlesError"
    ELSE "ok"

CheckTotalArticles(v) ==
    IF ~(IsInt(v) /\ v.n > 0) \/ IsBool(v)
    THEN "IncorrectNumberOfArticlesError"
    ELSE "ok"

CheckArticlesRange(v) ==
    IF ~(1 < v.n /\ v.n < 150)
    THEN "NumberOfArticlesOutOfRangeError"
    ELSE "ok"

CheckHeaders(v) ==
    IF ~(IsDict(v) /\ \A i \in DOMAIN v.s : IsStr(v.s[i][1]) /\ IsStr(v.s[i][2]))
    THEN "IncorrectHeadersError"
    ELSE "ok"

CheckEncoding(v) == IF ~IsStr(v) THEN "IncorrectEncodingError" ELSE "ok"

CheckTimeout(v) ==
    IF ~(IsInt(v) /\ 0 <= v.n /\ v.n <= 60) THEN "IncorrectTimeoutError" ELSE "ok"

CheckVerify(verify, headless) ==
    IF ~(IsBool(verify) /\ IsBool(headless)) THEN "IncorrectVerifyError" ELSE "ok"

\* the checks in the order of the code; the first one that fails raises and
\* the later ones are not evaluated
ValidateConfigContent(c) ==
    IF CheckSeedUrls(c.seed_urls) # "ok" THEN CheckSeedUrls(c.seed_urls)
    ELSE IF CheckTotalArticles(c.total_articles) # "ok"
         THEN CheckTotalArticles(c.total_articles)
    ELSE IF CheckArticlesRange(c.total_articles) # "ok"
         THEN CheckArticlesRange(c.total_articles)
    ELSE IF CheckHeaders(c.headers) # "ok" THEN CheckHeaders(c.headers)
    ELSE IF CheckEncoding(c.encoding) # "ok" THEN CheckEncoding(c.encoding)
    ELSE IF CheckTimeout(c.timeout) # "ok" THEN CheckTimeout(c.timeout)
    ELSE CheckVerify(c.should_verify_certificate, c.headless_mode)

-----------------------------------------------------------------------------
(* Crawler._extract_url *)

InSeq(x, seq) == \E i \in DOMAIN seq : seq[i] = x

\* the for loop over links from position i on, url being the value of the
\* local url so far; without a break the last value of url is returned
RECURSIVE ExtractUrlFrom(_, _, _, _)
ExtractUrlFrom(links, seen, i, url) ==
    IF i > Len(links) THEN url
    ELSE LET u == url_pattern \o links[i]
         IN  IF u # <<>> /\ ~InSeq(u, seen) THEN u
             ELSE ExtractUrlFrom(links, seen, i + 1, u)

\* '' is the empty sequence
ExtractUrl(links, seen) == ExtractUrlFrom(links, seen, 1, <<>>)

-----------------------------------------------------------------------------
(* The inputs: configuration files and sites *)

SeedUrlsChoices ==
    << PyNone,
       PyStr(Seed1),
       PyList(<<>>),
       PyList(<<PyStr(Seed1)>>),
       PyList(<<PyStr(Seed1), PyStr(Seed2)>>),
       PyList(<<PyStr(Http \o Host \o HrefRoot)>>),
       PyList(<<PyStr(Https \o OtherHost \o HrefRoot), PyStr(Seed1)>>),
       PyList(<<PyStr(Ftp \o Host \o HrefRoot)>>),
       PyList(<<PyStr(Seed1), PyStr(Host)>>),
       PyList(<<PyStr(Seed1), PyInt(5)>>) >>

TotalArticlesChoices ==
    << PyInt(-1), PyInt(0), PyInt(1), PyInt(2), PyInt(3), PyInt(149), PyInt(150),
       PyInt(151), PyBool(TRUE), PyBool(FALSE), PyStr(<<"5">>), PyFloat(2), PyNone >>

HeadersChoices ==
    << PyDict(<< <<PyStr(<<"U", "A">>), PyStr(<<"x">>)>> >>),
       PyDict(<< <<PyStr(<<"U", "A">>), PyInt(1)>> >>),
       PyList(<<>>) >>

EncodingChoices == << PyStr(<<"u", "t", "f", "-", "8">>), PyInt(8) >>

TimeoutChoices == << PyInt(60), PyInt(61), PyStr(<<"5">>) >>

VerifyChoices == << PyBool(TRUE), PyStr(<<"y">>) >>

HeadlessChoices == << PyBool(FALSE), PyInt(0) >>

\* listing pages: every sequence of at most MaxLinks links
Pages == UNION {[1..k -> Hrefs] : k \in 0..MaxLinks}

\* what requests.get does for one seed: it raises (transport failure), or
\* returns a response that is not ok, or an ok response with a page
SeedResponses ==
    {[status |-> "raise", links |-> <<>>], [status |-> "notok", links |-> <<>>]}
    \cup {[status |-> "ok", links |-> l] : l \in Pages}

\* the site answers every seed of the list the same way in every round; a
\* configuration that does not pass validation never reaches the site
Sites(c) ==
    IF ValidateConfigContent(c) = "ok"
    THEN [1..Len(c.seed_urls.s) -> SeedResponses]
    ELSE {<<>>}

\* a path that names nothing: no CorpusManager is built in a run of the scrapper
NoDataset == [exists |-> FALSE, is_dir |-> FALSE, other |-> FALSE,
              meta |-> {}, raw |-> {}]

NoFields ==
    [seed_urls |-> Unset, num_articles |-> Unset, headers |-> Unset,
     encoding |-> Unset, timeout |-> Unset,
     should_verify_certificate |-> Unset, headless_mode |-> Unset]

Init ==
    /\ \E i1 \in DOMAIN SeedUrlsChoices, i2 \in DOMAIN TotalArticlesChoices,
          i3 \in DOMAIN HeadersChoices, i4 \in DOMAIN EncodingChoices,
          i5 \in DOMAIN TimeoutChoices, i6 \in DOMAIN VerifyChoices,
          i7 \in DOMAIN HeadlessChoices :
          cfgFile = [seed_urls |-> SeedUrlsChoices[i1],
                     total_articles |-> TotalArticlesChoices[i2],
                     headers |-> HeadersChoices[i3],
                     encoding |-> EncodingChoices[i4],
                     timeout |-> TimeoutChoices[i5],
                     should_verify_certificate |-> VerifyChoices[i6],
                     headless_mode |-> HeadlessChoices[i7]]
    /\ site \in Sites(cfgFile)
    /\ pc = "main_config"
    /\ raised = "none"
    /\ config = NoFields
    /\ crawlerCreated = FALSE
    /\ urls = <<>>
    /\ seedIdx = 1
    /\ page = <<>>
    /\ new_url = <<>>
    /\ requests = {}
    /\ handed = <<>>
    /\ written = <<>>
    /\ dataset = NoDataset
    /\ cm_pc = "idle"
    /\ cm_raised = "none"
    /\ storage = {}

-----------------------------------------------------------------------------
(* main() *)

\* Config._extract_config_content and the assignments of Config.__init__
ExtractConfigContent(c) ==
    [seed_urls |-> c.seed_urls, num_articles |-> c.total_articles,
     headers |-> c.headers, encoding |-> c.encoding, timeout |-> c.timeout,
     should_verify_certificate |-> c.should_verify_certificate,
     headless_mode |-> c.headless_mode]

\* a constructor that sets its fields before it validates
ConfigInitAssignFirst ==
    /\ UNCHANGED <<tailVars, corpusVars>>
    /\ pc = "main_config"
    /\ config' = ExtractConfigContent(cfgFile)
    /\ IF ValidateConfigContent(cfgFile) # "ok"
       THEN raised' = ValidateConfigContent(cfgFile) /\ pc' = "raised"
       ELSE pc' = "main_crawler" /\ UNCHANGED raised
    /\ UNCHANGED <<cfgFile, site, crawlerCreated, urls, seedIdx, page, new_url,
                   requests>>

\* configuration = Config(path): validation first; an exception of the
\* validation leaves the constructor, and main(), before any field is set
ConfigInit ==
    /\ UNCHANGED <<tailVars, corpusVars>>
    /\ pc = "main_config"
    /\ IF ValidateConfigContent(cfgFile) # "ok"
       THEN /\ raised' = ValidateConfigContent(cfgFile)
            /\ pc' = "raised"
            /\ UNCHANGED config
       ELSE /\ config' = ExtractConfigContent(cfgFile)
            /\ pc' = "main_crawler"
            /\ UNCHANGED raised
    /\ UNCHANGED <<cfgFile, site, crawlerCreated, urls, seedIdx, page, new_url,
                   requests>>

\* crawler = Crawler(configuration); prepare_environment only touches the
\* assets directory; find_articles is entered
CrawlerInit ==
    /\ UNCHANGED <<tailVars, corpusVars>>
    /\ pc = "main_crawler"
    /\ crawlerCreated' = TRUE
    /\ urls' = <<>>
    /\ pc' = "while"
    /\ UNCHANGED <<cfgFile, site, raised, config, seedIdx, page, new_url, requests>>

get_num_articles == config.num_articles.n
get_seed_urls == config.seed_urls.s

\* while len(self.urls) < self.config.get_num_articles(): a round over the
\* seeds starts, or find_articles returns to main() (pc "main_parse": the
\* loop of main() over the URLs, ParseArticle below)
WhileCheck ==
    /\ UNCHANGED <<tailVars, corpusVars>>
    /\ pc = "while"
    /\ IF Len(urls) < get_num_articles
       THEN pc' = "for" /\ seedIdx' = 1
       ELSE pc' = "main_parse" /\ UNCHANGED seedIdx
    /\ UNCHANGED <<cfgFile, site, raised, config, crawlerCreated, urls, page,
                   new_url, requests>>

\* for seed_url in seed_urls: the next seed, or the round is over
ForSeed ==
    /\ UNCHANGED <<tailVars, corpusVars>>
    /\ pc = "for"
    /\ pc' = IF seedIdx <= Len(get_seed_urls) THEN "request" ELSE "while"
    /\ UNCHANGED <<cfgFile, site, raised, config, crawlerCreated, urls, seedIdx,
                   page, new_url>>
    /\ UNCHANGED requests

\* response = make_request(seed_url, self.config); if not response.ok: continue;
\* article_soap = BeautifulSoup(response.text)
MakeRequest ==
    /\ UNCHANGED <<tailVars, corpusVars>>
    /\ pc = "request"
    /\ requests' = requests \cup {seedIdx}
    /\ CASE site[seedIdx].status = "raise" ->
              /\ raised' = "RequestException"
              /\ pc' = "raised"
              /\ UNCHANGED <<seedIdx, page>>
         [] site[seedIdx].status = "notok" ->
              /\ seedIdx' = seedIdx + 1
              /\ pc' = "for"
              /\ UNCHANGED <<raised, page>>
         [] site[seedIdx].status = "ok" ->
              /\ page' = site[seedIdx].links
              /\ pc' = "extract"
              /\ UNCHANGED <<raised, seedIdx>>
    /\ UNCHANGED <<cfgFile, site, config, crawlerCreated, urls, new_url>>

\* new_url = self._extract_url(article_soap)
Extract ==
    /\ UNCHANGED <<tailVars, corpusVars>>
    /\ pc = "extract"
    /\ new_url' = ExtractUrl(page, urls)
    /\ pc' = "inner"
    /\ UNCHANGED <<cfgFile, site, raised, config, crawlerCreated, urls, seedIdx,
                   page, requests>>

\* while new_url: self.urls.append(new_url), or the page is done
InnerLoop ==
    /\ UNCHANGED <<tailVars, corpusVars>>
    /\ pc = "inner"
    /\ IF new_url # <<>>
       THEN /\ Len(urls) < MaxUrls
            /\ urls' = Append(urls, new_url)
            /\ pc' = "extract"
            /\ UNCHANGED seedIdx
       ELSE /\ seedIdx' = seedIdx + 1
            /\ pc' = "for"
            /\ UNCHANGED urls
    /\ UNCHANGED <<cfgFile, site, raised, config, crawlerCreated, page, new_url,
                   requests>>

Next ==
    \/ ConfigInit
    \/ CrawlerInit
    \/ WhileCheck
    \/ ForSeed
    \/ MakeRequest
    \/ Extract
    \/ InnerLoop

Spec == Init /\ [][Next]_vars

\* main() is one sequential thread: it takes its next step whenever it has one
FairSpec == Spec /\ WF_vars(Next)

-----------------------------------------------------------------------------
(* main() after crawler.find_articles() has returned *)

\* all_urls = crawler.get_search_urls(), which is config.get_seed_urls()
get_search_urls == get_seed_urls

\* one turn of "for index, url in enumerate(all_urls)": HTMLParser(url, ...),
\* parse() with its make_request, and to_raw/to_meta for an article that has
\* title, date and text; after the last URL main() prints and ends.  The URL
\* is a seed, so the site answers it as it answers that seed; on an ok
\* response the fields are found or not, or strptime raises on the date.
ParseArticle ==
    /\ UNCHANGED corpusVars
    /\ pc = "main_parse"
    /\ IF Len(handed) >= Len(get_search_urls)
       THEN /\ pc' = "done"
            /\ UNCHANGED <<raised, requests, handed, written>>
       ELSE LET index == Len(handed) + 1
                url == get_search_urls[index].s
            IN  /\ handed' = Append(handed, url)
                /\ requests' = requests \cup {index}
                /\ CASE site[index].status = "raise" ->
                          /\ raised' = "RequestException"
                          /\ pc' = "raised"
                          /\ UNCHANGED written
                     [] site[index].status = "notok" ->
                          UNCHANGED <<pc, raised, written>>
                     [] site[index].status = "ok" ->
                          \E fields \in {"complete", "missing", "bad_date"} :
                             CASE fields = "complete" ->
                                    /\ written' = Append(written, url)
                                    /\ UNCHANGED <<pc, raised>>
                               [] fields = "missing" ->
                                    UNCHANGED <<pc, raised, written>>
                               [] fields = "bad_date" ->
                                    /\ raised' = "ValueError"
                                    /\ pc' = "raised"
                                    /\ UNCHANGED written
    /\ UNCHANGED <<cfgFile, site, config, crawlerCreated, urls, seedIdx, page,
                   new_url>>

\* the full URLs a listing page can yield
FullUrls == {url_pattern \o h : h \in Hrefs}

\* the values of Crawler.urls with which the while loop of find_articles is
\* left: len(self.urls) < get_num_articles() is false
ReturnedUrls(num) == UNION {[1..k -> FullUrls] : k \in num..MaxUrls}

\* the answers of the seeds; the links of their pages play no part in the
\* parsing of an article
TailSites(c) == {st \in Sites(c) : \A k \in DOMAIN st : st[k].links = <<>>}

\* The state in which find_articles returns to main(): a Config that passed
\* validation, a Crawler, and urls as the loop condition of line 287 leaves
\* them.  In Spec no run gets here (the inner loop of find_articles does not
\* end once a page has a link, see C12); the second half of main() is
\* checked from the states its call of find_articles can return in.
HandOffInit ==
    /\ \E i1 \in DOMAIN SeedUrlsChoices, i2 \in DOMAIN TotalArticlesChoices,
          i5 \in DOMAIN TimeoutChoices :
          cfgFile = [seed_urls |-> SeedUrlsChoices[i1],
                     total_articles |-> TotalArticlesChoices[i2],
                     headers |-> HeadersChoices[1],
                     encoding |-> EncodingChoices[1],
                     timeout |-> TimeoutChoices[i5],
                     should_verify_certificate |-> VerifyChoices[1],
                     headless_mode |-> HeadlessChoices[1]]
    /\ ValidateConfigContent(cfgFile) = "ok"
    /\ site \in TailSites(cfgFile)
    /\ config = ExtractConfigContent(cfgFile)
    /\ crawlerCreated = TRUE
    /\ urls \in ReturnedUrls(cfgFile.total_articles.n)
    /\ pc = "main_parse"
    /\ raised = "none"
    /\ seedIdx = Len(cfgFile.seed_urls.s) + 1
    /\ page = <<>>
    /\ new_url = <<>>
    /\ requests = DOMAIN cfgFile.seed_urls.s
    /\ handed = <<>>
    /\ written = <<>>
    /\ dataset = NoDataset
    /\ cm_pc = "idle"
    /\ cm_raised = "none"
    /\ storage = {}

HandOffNext == ParseArticle

HandOffSpec == HandOffInit /\ [][HandOffNext]_vars


-----------------------------------------------------------------------------
(* lab_6_pipeline: CorpusManager *)

\* The directory: whether the path exists and is a directory, whether it
\* holds an entry that matches neither pattern, and the files that match
\* *_meta.json and *_raw.txt.  A file is [id, padded, size]: the article id
\* its name starts with, whether the id is written with a leading zero
\* (01_raw.txt beside 1_raw.txt), and its size in bytes.
FileNames ==
    {[id |-> i, padded |-> FALSE] : i \in 1..MaxId}
    \cup {[id |-> 1, padded |-> TRUE]}

\* the sets of files of one pattern: each name at most once, empty or not
FileSets ==
    UNION {{{[id |-> fn.id, padded |-> fn.padded, size |-> sz[fn]] : fn \in names} :
               sz \in [names -> {0, 1}]} : names \in SUBSET FileNames}

Datasets ==
    {NoDataset, [NoDataset EXCEPT !.exists = TRUE]}
    \cup {[exists |-> TRUE, is_dir |-> TRUE, other |-> o, meta |-> m, raw |-> r] :
             o \in BOOLEAN, m \in FileSets, r \in FileSets}

\* core_utils.article.article.get_article_id_from_filepath: the id as an int
get_article_id_from_filepath(file) == file.id

\* list.sort(key=lambda x: int(get_article_id_from_filepath(x))): ascending
\* ids; files of equal id in the order the glob yields them, here the plain
\* name first
RECURSIVE SortById(_)
SortById(files) ==
    IF files = {} THEN <<>>
    ELSE LET first == CHOOSE f \in files :
                         \A g \in files :
                            \/ get_article_id_from_filepath(f)
                                  < get_article_id_from_filepath(g)
                            \/ /\ get_article_id_from_filepath(f)
                                     = get_article_id_from_filepath(g)
                               /\ (f.padded => g.padded)
         IN  <<first>> \o SortById(files \ {first})

Min(a, b) == IF a <= b THEN a ELSE b

\* a loop that never looks at the raw file's id
CheckPairsMetaIdOnly(all_meta, all_raw, i) ==
    IF \E k \in i..Min(Len(all_meta), Len(all_raw)) :
          \/ all_meta[k].size = 0
          \/ all_raw[k].size = 0
          \/ get_article_id_from_filepath(all_meta[k]) # k
    THEN "InconsistentDatasetError"
    ELSE "ok"

\* for i, (meta, raw) in enumerate(zip(all_meta, all_raw), start=1), from
\* pair i on
RECURSIVE CheckPairsFrom(_, _, _)
CheckPairsFrom(all_meta, all_raw, i) ==
    IF i > Min(Len(all_meta), Len(all_raw)) THEN "ok"
    ELSE IF all_meta[i].size = 0 \/ all_raw[i].size = 0
         THEN "InconsistentDatasetError"
    ELSE IF \/ get_article_id_from_filepath(all_meta[i]) # i
            \/ get_article_id_from_filepath(all_raw[i]) # i
         THEN "InconsistentDatasetError"
    ELSE CheckPairsFrom(all_meta, all_raw, i + 1)

CheckPairs(all_meta, all_raw, i) == CheckPairsFrom(all_meta, all_raw, i)

\* CorpusManager._validate_dataset: "ok" or the exception it raises
ValidateDataset(d) ==
    IF ~d.exists THEN "FileNotFoundError"
    ELSE IF ~d.is_dir THEN "NotADirectoryError"
    ELSE IF ~(d.other \/ d.meta # {} \/ d.raw # {}) THEN "EmptyDirectoryError"
    ELSE IF Cardinality(d.meta) # Cardinality(d.raw)
         THEN "InconsistentDatasetError"
    ELSE CheckPairs(SortById(d.meta), SortById(d.raw), 1)

\* CorpusManager(path) up to the return of _validate_dataset
CorpusManagerInit ==
    /\ cm_pc = "new"
    /\ storage' = {}
    /\ IF ValidateDataset(dataset) # "ok"
       THEN cm_raised' = ValidateDataset(dataset) /\ cm_pc' = "raised"
       ELSE cm_pc' = "scan" /\ UNCHANGED cm_raised
    /\ UNCHANGED dataset
    /\ UNCHANGED <<cfgFile, site, pc, raised, config, crawlerCreated, urls,
                   seedIdx, page, new_url, requests, tailVars>>

\* self._scan_dataset(): one entry per id of a raw file
ScanDataset ==
    /\ cm_pc = "scan"
    /\ storage' = {get_article_id_from_filepath(f) : f \in dataset.raw}
    /\ cm_pc' = "ready"
    /\ UNCHANGED <<dataset, cm_raised>>
    /\ UNCHANGED <<cfgFile, site, pc, raised, config, crawlerCreated, urls,
                   seedIdx, page, new_url, requests, tailVars>>

\* a CorpusManager is built for some directory; no scrapper runs
CorpusInit ==
    /\ dataset \in Datasets
    /\ cm_pc = "new"
    /\ cm_raised = "none"
    /\ storage = {}
    /\ cfgFile = [seed_urls |-> PyNone, total_articles |-> PyNone,
                  headers |-> PyNone, encoding |-> PyNone, timeout |-> PyNone,
                  should_verify_certificate |-> PyNone, headless_mode |-> PyNone]
    /\ site = <<>>
    /\ pc = "idle"
    /\ raised = "none"
    /\ config = NoFields
    /\ crawlerCreated = FALSE
    /\ urls = <<>>
    /\ seedIdx = 1
    /\ page = <<>>
    /\ new_url = <<>>
    /\ requests = {}
    /\ handed = <<>>
    /\ written = <<>>

CorpusNext == CorpusManagerInit \/ ScanDataset

CorpusSpec == CorpusInit /\ [][CorpusNext]_vars

-----------------------------------------------------------------------------
(* Vocabulary of the properties *)

\* the seven configuration errors
ConfigErrors ==
    {"IncorrectSeedURLError", "IncorrectNumberOfArticlesError",
     "NumberOfArticlesOutOfRangeError", "IncorrectHeadersError",
     "IncorrectEncodingError", "IncorrectTimeoutError", "IncorrectVerifyError"}

\* Config(...) has returned or raised
ConfigDone == pc # "main_config"

AnyFieldAssigned == \E f \in DOMAIN config : config[f].t # "unset"
AllFieldsAssigned == \A f \in DOMAIN config : config[f].t # "unset"

\* a non-empty list of absolute https URLs on the site's host
SeedUrlsWellFormed(v) ==
    /\ IsList(v)
    /\ Len(v.s) > 0
    /\ \A i \in DOMAIN v.s : IsStr(v.s[i]) /\ HasPrefix(url_pattern, v.s[i].s)

\* every field but total_articles is valid
OtherFieldsValid(c) ==
    /\ SeedUrlsWellFormed(c.seed_urls)
    /\ CheckHeaders(c.headers) = "ok"
    /\ CheckEncoding(c.encoding) = "ok"
    /\ CheckTimeout(c.timeout) = "ok"
    /\ CheckVerify(c.should_verify_certificate, c.headless_mode) = "ok"

\* the full URLs the seeds that answer ok offer, all pages together
OfferedUrls ==
    UNION {{url_pattern \o site[k].links[i] : i \in DOMAIN site[k].links} :
              k \in {k \in DOMAIN site : site[k].status = "ok"}}

SeedStrings == {get_seed_urls[k].s : k \in DOMAIN get_seed_urls}

\* find_articles runs under a configuration whose seed list is well formed
ValidCrawl == crawlerCreated /\ SeedUrlsWellFormed(cfgFile.seed_urls)

-----------------------------------------------------------------------------
(* Crawler.find_articles *)

\* C1: no URL occurs more than once in Crawler.urls, in any state of
\* find_articles.
C1_NoDuplicateUrls ==
    ValidCrawl => \A i, j \in DOMAIN urls : i # j => urls[i] # urls[j]

\* C2: Crawler.urls never holds more URLs than config.get_num_articles().
C2_SizeBound ==
    ValidCrawl => Len(urls) <= get_num_articles

\* C3: when the seeds together offer fewer distinct links than the target
\* (none at all included), find_articles eventually ends: it returns or an
\* exception leaves it.  Runs that the bound MaxUrls cuts short are not held
\* against the claim.
C3_ExhaustionTerminates ==
    (ValidCrawl /\ pc = "while" /\ Cardinality(OfferedUrls) < get_num_articles)
        ~> (pc \in {"main_parse", "raised"} \/ Len(urls) >= MaxUrls)

\* C4: once len(urls) has reached the target, no further link extraction and
\* no further make_request takes place.
C4_StopAtTarget ==
    [][(ValidCrawl /\ Len(urls) >= get_num_articles)
          => ~(Extract \/ MakeRequest)]_vars

\* C5: a configured seed URL is never a member of Crawler.urls.
C5_SelfExclusion ==
    ValidCrawl => \A i \in DOMAIN urls : urls[i] \notin SeedStrings

\* C6: no seed fetch, failed in whatever way, aborts find_articles: once the
\* crawler exists no exception leaves main().
C6_FetchFailureTolerated ==
    ValidCrawl => pc # "raised" /\ raised = "none"

-----------------------------------------------------------------------------
(* Config *)

\* C7: with every other field valid, an integer total_articles is accepted
\* exactly when it lies in 2..150, and 1 and 151 are rejected with
\* NumberOfArticlesOutOfRangeError.
C7_RangeBoundary ==
    (ConfigDone /\ OtherFieldsValid(cfgFile) /\ cfgFile.total_articles.t = "int")
        => LET k == cfgFile.total_articles.n
           IN  /\ AllFieldsAssigned <=> k \in 2..150
               /\ k \in {1, 151} => raised = "NumberOfArticlesOutOfRangeError"

\* C8: with seed_urls that pass their check, a total_articles that is not an
\* integer, is a boolean or is an integer <= 0 fails with
\* IncorrectNumberOfArticlesError, and a non-boolean positive integer outside
\* 2..150 fails with NumberOfArticlesOutOfRangeError.
C8_TypeSignVsRangeSplit ==
    (ConfigDone /\ CheckSeedUrls(cfgFile.seed_urls) = "ok")
        => LET v == cfgFile.total_articles
           IN  /\ (v.t # "int" \/ v.n <= 0)
                     => raised = "IncorrectNumberOfArticlesError"
               /\ (v.t = "int" /\ v.n > 0 /\ v.n \notin 2..150)
                     => raised = "NumberOfArticlesOutOfRangeError"

\* C8 witness: the boolean True, which is an int greater than 0, was rejected
\* as a wrong type and not as out of range
C8_Witness ==
    /\ pc = "raised"
    /\ cfgFile.total_articles = PyBool(TRUE)
    /\ CheckSeedUrls(cfgFile.seed_urls) = "ok"
    /\ raised = "IncorrectNumberOfArticlesError"

\* C9: validation fails with IncorrectSeedURLError exactly when seed_urls is
\* not a non-empty list of absolute https URLs on the site's host.
C9_SeedUrlValidation ==
    ConfigDone
        => (raised = "IncorrectSeedURLError"
               <=> ~SeedUrlsWellFormed(cfgFile.seed_urls))

\* C10: a configuration error leaves the constructor before any field is
\* assigned, and there is no crawler and no request unless the Config was
\* constructed from a configuration that passes validation.
C10_ValidationGate ==
    /\ AnyFieldAssigned => ValidateConfigContent(cfgFile) = "ok"
    /\ raised \in ConfigErrors
          => ~AnyFieldAssigned /\ ~crawlerCreated /\ requests = {}
    /\ (crawlerCreated \/ requests # {})
          => AllFieldsAssigned /\ ValidateConfigContent(cfgFile) = "ok"

\* C10 witness: the last of the checks failed and nothing was set or started
C10_Witness ==
    /\ pc = "raised"
    /\ raised = "IncorrectVerifyError"
    /\ ~AnyFieldAssigned
    /\ ~crawlerCreated
    /\ requests = {}

-----------------------------------------------------------------------------
(* Crawler._extract_url as find_articles uses it *)

\* the positions of the links of a page whose full URL is not in seen
NewLinkPositions(links, seen) ==
    {i \in DOMAIN links : ~InSeq(url_pattern \o links[i], seen)}

\* the first link in page order that is not in seen; '' when there is none
FirstNewUrl(links, seen) ==
    IF NewLinkPositions(links, seen) = {} THEN <<>>
    ELSE LET first == CHOOSE i \in NewLinkPositions(links, seen) :
                          \A j \in NewLinkPositions(links, seen) : i <= j
         IN  url_pattern \o links[first]

\* C12: what _extract_url has returned is the first link of the page, in page
\* order, that is not yet in Crawler.urls, and the empty sentinel exactly when
\* the page has no such link.
C12_ExtractorSentinel ==
    (ValidCrawl /\ pc = "inner") => new_url = FirstNewUrl(page, urls)

-----------------------------------------------------------------------------
(* main(): from discovery to parsing *)

-----------------------------------------------------------------------------
(* CorpusManager: the dataset gate *)

\* the files of one pattern carry the ids 1..N, each once, N their number
IdsExactlyOneToN(files) ==
    \A i \in 1..Cardinality(files) : Cardinality({f \in files : f.id = i}) = 1

\* equally many meta and raw files, none empty, ids 1..N without gaps
ConsistentDataset(d) ==
    /\ Cardinality(d.meta) = Cardinality(d.raw)
    /\ \A f \in d.meta \cup d.raw : f.size > 0
    /\ IdsExactlyOneToN(d.meta)
    /\ IdsExactlyOneToN(d.raw)

\* what the construction has to end with for a directory
ExpectedOutcome(d) ==
    IF ~d.exists THEN "FileNotFoundError"
    ELSE IF ~d.is_dir THEN "NotADirectoryError"
    ELSE IF ~d.other /\ d.meta = {} /\ d.raw = {} THEN "EmptyDirectoryError"
    ELSE IF ~ConsistentDataset(d) THEN "InconsistentDatasetError"
    ELSE "none"

====
